---- MODULE Spec2Model ----
(***************************************************************************)
(* Model of the agentic search loop (workflow/agentic_search.py), its SSE  *)
(* wrapper and stop endpoint (main.py), the model stream                   *)
(* (model/model_client.py) and the search/fetch/cache/summarize utilities  *)
(* (utils/search.py).                                                      *)
(*                                                                         *)
(* Text is a sequence of one-character strings, so that delimiters can be  *)
(* split over several stream tokens and rfind/strip work on characters.    *)
(***************************************************************************)
EXTENDS Integers, Sequences, FiniteSets, TLC

\* ------------------------------------------------------------------------
\* Bounds of the model (not program constants)
\* ------------------------------------------------------------------------
MaxFrags == 7        \* fragments concatenated into an extraction input
MaxDeltas == 4       \* stream chunks a free model may send in one invocation
MaxOrganic == 2      \* organic results the provider holds for a query
MaxTopK == 2         \* largest top_k a caller of search_and_fetch passes
MaxUrls == 3         \* urls passed to one fetch_multiple_pages call
MaxWorkers == 2      \* largest max_workers passed to fetch_multiple_pages
MaxPages == 3        \* pages passed to one summarize_pages call
MaxStored == 2       \* results in one stored list when clean_cache runs

\* ------------------------------------------------------------------------
\* Text helpers
\* ------------------------------------------------------------------------
open_tag == <<"<", "s", "e", "a", "r", "c", "h", ">">>
close_tag == <<"<", "/", "s", "e", "a", "r", "c", "h", ">">>
THINK == <<"<", "t", "h", "i", "n", "k", ">">>
Whitespace == {" ", "\n"}

\* pat occurs in text at 0-based index i
OccursAt(text, pat, i) ==
    /\ i >= 0
    /\ i + Len(pat) <= Len(text)
    /\ SubSeq(text, i + 1, i + Len(pat)) = pat

RECURSIVE RScan(_, _, _)
\* right-to-left scan from index i down to 0; -1 when nothing matches
RScan(text, pat, i) ==
    IF i < 0 THEN -1
    ELSE IF OccursAt(text, pat, i) THEN i
    ELSE RScan(text, pat, i - 1)

\* str.rfind(pat, 0, end): the highest index of an occurrence lying in [0,end)
rfind(text, pat, end) == RScan(SubSeq(text, 1, end), pat, end - Len(pat))

RECURSIVE LStrip(_)
LStrip(s) == IF s # <<>> /\ Head(s) \in Whitespace THEN LStrip(Tail(s)) ELSE s

RECURSIVE RStrip(_)
RStrip(s) ==
    IF s # <<>> /\ s[Len(s)] \in Whitespace
    THEN RStrip(SubSeq(s, 1, Len(s) - 1))
    ELSE s

\* str.strip()
strip(s) == RStrip(LStrip(s))

RECURSIVE Concat(_)
\* "".join(parts)
Concat(parts) == IF parts = <<>> THEN <<>> ELSE Head(parts) \o Concat(Tail(parts))

EndsWith(text, pat) ==
    Len(text) >= Len(pat) /\ SubSeq(text, Len(text) - Len(pat) + 1, Len(text)) = pat

\* Optional values: <<>> is None, <<v>> is the value v
None == <<>>
Some(v) == <<v>>

\* ------------------------------------------------------------------------
\* extract_search_query
\* ------------------------------------------------------------------------
\* extraction that takes the first complete span
extract_search_query_first(text) ==
    LET RECURSIVE LScan(_, _, _)
        LScan(t, pat, i) ==
            IF i + Len(pat) > Len(t) THEN -1
            ELSE IF OccursAt(t, pat, i) THEN i
            ELSE LScan(t, pat, i + 1)
        open_idx == LScan(text, open_tag, 0)
        close_idx == IF open_idx = -1 THEN -1
                     ELSE LScan(text, close_tag, open_idx + Len(open_tag))
    IN  IF text = <<>> \/ open_idx = -1 \/ close_idx = -1 THEN None
        ELSE Some(strip(SubSeq(text, open_idx + Len(open_tag) + 1, close_idx)))

\* extraction without the "open_idx == -1" test
extract_search_query_nocheck(text) ==
    IF text = <<>> THEN None
    ELSE LET close_idx == rfind(text, close_tag, Len(text))
         IN  IF close_idx = -1 THEN None
             ELSE LET open_idx == rfind(text, open_tag, close_idx)
                      start == open_idx + Len(open_tag)
                  IN  Some(strip(SubSeq(text, start + 1, close_idx)))

extract_search_query(text) ==
    IF text = <<>> THEN None
    ELSE LET close_idx == rfind(text, close_tag, Len(text))
         IN  IF close_idx = -1 THEN None
             ELSE LET open_idx == rfind(text, open_tag, close_idx)
                  IN  IF open_idx = -1 THEN None
                      ELSE LET start == open_idx + Len(open_tag)
                           IN  Some(strip(SubSeq(text, start + 1, close_idx)))

\* a test that takes only None for "no query"
Falsy_only_none(q) == q = None

\* "if not search_query": None and the empty string are both falsy
Falsy(q) == IF q = None THEN TRUE ELSE q[1] = <<>>

\* ------------------------------------------------------------------------
\* utils/search.py: provider, fetcher, cache, summarizer
\* ------------------------------------------------------------------------
ErrorMarker == <<"[", "E", "r", "r", "o", "r", "]">>
StartsWith(text, pat) == Len(text) >= Len(pat) /\ SubSeq(text, 1, Len(pat)) = pat

\* what fetch_page_content can return: cleaned page text (possibly empty),
\* or a failure-marked string (non-200 status, exception)
PageText == <<"p", "g">>
JinaError == ErrorMarker \o <<" ", "J">>
Contents == {PageText, <<>>, JinaError}

\* raw organic items of the provider; "link" may be missing (-> "")
RawItems == {[title |-> "t1", link |-> "u1", snippet |-> "s1"],
             [title |-> "t3", link |-> "", snippet |-> "s3"]}

Min(a, b) == IF a < b THEN a ELSE b
Range(s) == {s[i] : i \in 1..Len(s)}
SeqsUpTo(S, n) == UNION {[1..m -> S] : m \in 0..n}

\* serper_search without the [:top_k] slice
serper_search_noslice(resp, top_k) ==
    IF resp.status # "ok" THEN <<>>
    ELSE [i \in 1..Len(resp.organic) |->
             [title |-> resp.organic[i].title,
              url |-> resp.organic[i].link,
              snippet |-> resp.organic[i].snippet]]

\* serper_search handing the results back last first
serper_search_reversed(resp, top_k) ==
    IF resp.status # "ok" THEN <<>>
    ELSE IF resp.organic = <<>> THEN <<>>
    ELSE LET m == Min(top_k, Len(resp.organic))
         IN  [i \in 1..m |->
                [title |-> resp.organic[m + 1 - i].title,
                 url |-> resp.organic[m + 1 - i].link,
                 snippet |-> resp.organic[m + 1 - i].snippet]]

\* resp is the provider's answer: status "ok" (with organic results),
\* "error" (response not ok) or "exception" (request raised)
serper_search(resp, top_k) ==
    IF resp.status # "ok" THEN <<>>
    ELSE IF resp.organic = <<>> THEN <<>>
    ELSE [i \in 1..Min(top_k, Len(resp.organic)) |->
             [title |-> resp.organic[i].title,
              url |-> resp.organic[i].link,
              snippet |-> resp.organic[i].snippet]]

\* urls = [item["url"] for item in search_results if item["url"]]
RECURSIVE urls_of(_)
urls_of(search_results) ==
    IF search_results = <<>> THEN <<>>
    ELSE LET rest == urls_of(Tail(search_results))
         IN  IF Head(search_results).url # ""
             THEN <<Head(search_results).url>> \o rest
             ELSE rest

\* the mappings fetch_multiple_pages can return for a list of urls: one
\* fetch is submitted per list entry, each yields some content, and the
\* entry of a url holds the content of one of the fetches of that url
fetch_multiple_pages(urls) == [Range(urls) -> Contents]

\* the "Combine results" loop of search_and_fetch
combine(search_results, page_texts) ==
    [i \in 1..Len(search_results) |->
        [title |-> search_results[i].title,
         url |-> search_results[i].url,
         snippet |-> search_results[i].snippet,
         content |-> IF search_results[i].url \in DOMAIN page_texts
                     THEN page_texts[search_results[i].url]
                     ELSE <<>>]]

\* the hit test ignoring the stored length
cache_hit_anylen(c, query, top_k) == query \in DOMAIN c

\* query in cache and len(cache[query]) >= top_k
cache_hit(c, query, top_k) == query \in DOMAIN c /\ Len(c[query]) >= top_k

\* a hit that returns the whole stored list
cached_prefix_whole(c, query, top_k) == c[query]

\* cache[query][:top_k]
cached_prefix(c, query, top_k) == SubSeq(c[query], 1, Min(top_k, Len(c[query])))

\* a store that keeps the written entry only
cache_put_alone(c, query, out) == [x \in {query} |-> out]

\* cache[query] = output
cache_put(c, query, out) ==
    [x \in DOMAIN c \cup {query} |-> IF x = query THEN out ELSE c[x]]

EmptyCache == [x \in {} |-> <<>>]

\* a clean_cache that drops the results without content as well
clean_cache_drops_empty(c) ==
    LET new == [q \in DOMAIN c |->
                   SelectSeq(c[q], LAMBDA item :
                       item.content # <<>> /\ ~StartsWith(item.content, ErrorMarker))]
    IN  [cache |-> new,
         changed |-> \E q \in DOMAIN c : Len(new[q]) # Len(c[q])]

\* clean_cache on the loaded store c: the store it leaves and whether it
\* calls save_cache
clean_cache(c) ==
    LET new == [q \in DOMAIN c |->
                   SelectSeq(c[q], LAMBDA item : ~StartsWith(item.content, ErrorMarker))]
    IN  [cache |-> new,
         changed |-> \E q \in DOMAIN c : Len(new[q]) # Len(c[q])]

\* summarize_pages: the pages whose content is kept
valid_pages(pages) ==
    {i \in 1..Len(pages) :
        pages[i].content # <<>> /\ ~StartsWith(pages[i].content, ErrorMarker)}

NoValidSentinel == ErrorMarker \o <<" ", "N", "o">>
SummaryText == <<"S", "u", "m">>

\* a summarize_pages that asks the model whatever the pages hold
summarize_pages_unguarded(pages, reply) == [summary |-> reply, model_calls |-> 1]

\* summarize_pages when the completion call, if made, answers reply: the
\* returned text and the number of completion calls made
summarize_pages(pages, reply) ==
    IF valid_pages(pages) = {}
    THEN [summary |-> NoValidSentinel, model_calls |-> 0]
    ELSE [summary |-> reply, model_calls |-> 1]

\* the whole of search_and_fetch as one step, for a provider answer resp and
\* a fetch result chosen among fetch_multiple_pages(urls)
search_and_fetch(c, query, top_k, resp, page_texts) ==
    IF cache_hit(c, query, top_k)
    THEN [result |-> cached_prefix(c, query, top_k), cache |-> c,
          provider |-> 0, batches |-> 0, fetched |-> 0, saves |-> 0]
    ELSE LET search_results == serper_search(resp, top_k)
             out == combine(search_results, page_texts)
         IN  [result |-> out, cache |-> cache_put(c, query, out),
              provider |-> 1, batches |-> 1,
              fetched |-> Len(urls_of(search_results)), saves |-> 1]

\* ------------------------------------------------------------------------
\* State
\* ------------------------------------------------------------------------
VARIABLES
    \* --- the agentic loop behind the sse generator ---
    pc,             \* position of the generator: "start", "post", "stream",
                    \* "resume" (suspended at the search-result yield), "closed"
    rounds,         \* iterations of "for _ in range(max_rounds)" started
    output,         \* the round's accumulated output
    search_query,   \* result of the last extract_search_query (None or <<q>>)
    history,        \* conversation history
    events,         \* events the sse generator has sent to the caller
    streamed,       \* per round, the tokens stream_generate yielded
    summaries,      \* per search round, what summarize_pages returned
    calls,          \* calls made by the loop: provider, fetcher, summarizer, save
    modelKind,      \* "free": any bounded output; "always": a directive per round
    deltas,         \* stream chunks the free model has sent
    active_tasks,   \* main.py: task id -> cancel event (set or not)
    stopRequested,  \* a stop request has been made for the running task
    failed,         \* what raised inside the generator: "none", "prepare",
                    \* "post", "stream", "summarizer"
    lastResp,       \* the provider's answer to the loop's last provider call
    \* --- the result cache (shared file) ---
    cache,
    \* --- a caller of search_and_fetch, step by step ---
    spc,            \* "idle", "serper", "fetch", "save"
    squery, stop_k, \* arguments of the call in progress
    loaded,         \* the local "cache" dict of the call (load_cache result)
    search_results, \* serper_search result of the call
    page_texts,     \* fetch_multiple_pages result of the call
    sresp,          \* the provider's answer to the call
    scalls,         \* calls made by the call: provider, fetcher, save
    last,           \* record of the last completed call
    \* --- extract_search_query applied to a text ---
    xtext, xfrags, xresult, xdone,
    \* --- one fetch_multiple_pages call and its worker pool ---
    fpc,            \* "collecting" (inside the with block), "returned"
    furls,          \* the urls argument; index i is the i-th submitted future
    fmax,           \* max_workers
    fstate,         \* per future: "queued", "running", "done", "collected"
    fres,           \* per future: the response the page service gave
    fout,           \* per future: what fetch_page_content returned
    results,        \* the results dict
    \* --- one summarize_pages call ---
    mpages,         \* the pages argument
    msummary,       \* None until it returns, then <<returned text>>
    mcalls,         \* completion calls made
    mdone,          \* "no", "returned", "raised"
    \* --- clean_cache runs on the store ---
    cruns,          \* clean_cache runs since the store was last written by
                    \* someone else (counted up to 2)
    cprev,          \* the store before the first of these runs
    csaves,         \* save_cache calls made by the last run
    \* --- two search_and_fetch invocations sharing the cache file ---
    file,           \* content of CACHE_FILE, <<>> when absent or empty
    wpc,            \* per invocation: "load", "search", "open", "dump", "done"
    wloaded,        \* per invocation: its local "cache" dict
    wout,           \* per invocation: its combined output
    wlast           \* the invocation whose json.dump came last (0: none yet)

loopVars == <<pc, rounds, output, search_query, history, events, streamed,
              summaries, calls, modelKind, deltas, active_tasks,
              stopRequested, failed, lastResp>>
searchVars == <<spc, squery, stop_k, loaded, sresp, search_results, page_texts,
               scalls, last>>
extractVars == <<xtext, xfrags, xresult, xdone>>
fetchVars == <<fpc, furls, fmax, fstate, fres, fout, results>>
sumVars == <<mpages, msummary, mcalls, mdone>>
cleanVars == <<cruns, cprev, csaves>>
writerVars == <<file, wpc, wloaded, wout, wlast>>
auxVars == <<fetchVars, sumVars, cleanVars, writerVars>>
vars == <<loopVars, cache, searchVars, extractVars, auxVars>>

max_rounds == 20
loop_top_k == 5

UserMessage == [role |-> "user", text |-> <<"p">>]
RES_OPEN == <<"<", "s", "e", "a", "r", "c", "h", "_", "r", "e", "s", "u", "l", "t", ">">>
RES_CLOSE == <<"<", "/", "s", "e", "a", "r", "c", "h", "_", "r", "e", "s", "u", "l", "t", ">">>

Token(t) == [type |-> "token", content |-> t]
Done == [type |-> "done", content |-> <<>>]
Error == [type |-> "error", content |-> <<>>]
Terminal(e) == e.type \in {"done", "error"}

\* a loop that forwards the stripped token
Forward_stripped(evs, token) == Append(evs, Token(strip(token)))

\* yield {"type": "token", "content": token}, wrapped by sse in a data frame
Forward(evs, token) == Append(evs, Token(token))

\* a result event without the result span
WrapResult_bare(summary) == summary

\* f"\n<search_result>{summary}</search_result>\n"
WrapResult(summary) == <<"\n">> \o RES_OPEN \o summary \o RES_CLOSE \o <<"\n">>

\* a range that runs one round too many
InRange_inclusive(r) == r <= max_rounds

\* for _ in range(max_rounds): another iteration is left
InRange(r) == r < max_rounds

\* text contains pat
Contains(text, pat) == rfind(text, pat, Len(text)) # -1

\* ------------------------------------------------------------------------
\* Environment of the loop
\* ------------------------------------------------------------------------
\* chunks of a free model; delimiters can arrive whole or split in two
Fragments == {open_tag, close_tag, <<"q">>, <<" ">>,
              <<"<">>, <<"/", "s", "e", "a", "r", "c", "h", ">">>}
\* the whole output of a round of the always-directive model
Directive == open_tag \o <<"q">> \o close_tag

\* five organic results, as the loop asks for top_k = 5
FiveOrganic ==
    LET a == [title |-> "t1", link |-> "u1", snippet |-> "s1"]
        b == [title |-> "t2", link |-> "u2", snippet |-> "s2"]
    IN  <<a, b, a, b, a>>
\* one result more than the loop asks for, and fewer than it asks for
SixOrganic == Append(FiveOrganic, [title |-> "t6", link |-> "u6", snippet |-> "s6"])
TwoOrganic == SubSeq(FiveOrganic, 1, 2)
LoopResponses == {[status |-> "ok", organic |-> FiveOrganic],
                  [status |-> "ok", organic |-> SixOrganic],
                  [status |-> "ok", organic |-> <<>>],
                  [status |-> "error", organic |-> <<>>],
                  [status |-> "exception", organic |-> <<>>]}
\* the provider answers the free model's searches with short lists as well
LoopResponsesFor(kind) ==
    IF kind = "free"
    THEN LoopResponses \cup {[status |-> "ok", organic |-> TwoOrganic]}
    ELSE LoopResponses
\* the fetcher answers all pages alike in one round of the loop
LoopPageTexts(urls) == {[u \in Range(urls) |-> c] : c \in {PageText, JinaError}}
StoredFive == combine(serper_search([status |-> "ok", organic |-> FiveOrganic], loop_top_k),
                      [u \in {"u1", "u2"} |-> PageText])
LoopCaches == {EmptyCache, cache_put(EmptyCache, <<"q">>, StoredFive)}

NoCalls == [searches |-> 0, provider |-> 0, batches |-> 0, fetched |-> 0,
            summarizer |-> 0, saves |-> 0]
NoSearchCalls == [provider |-> 0, batches |-> 0, fetched |-> 0, saves |-> 0]
NoResp == [status |-> "none", organic |-> <<>>]
NoLast == [valid |-> FALSE, query |-> <<>>, top_k |-> 0, result |-> <<>>, hit |-> FALSE,
           repeat |-> FALSE, prevlen |-> 0]

SearchIdle ==
    /\ spc = "idle" /\ squery = <<>> /\ stop_k = 0 /\ loaded = EmptyCache
    /\ search_results = <<>> /\ page_texts = EmptyCache
    /\ sresp = NoResp /\ scalls = NoSearchCalls /\ last = NoLast
ExtractIdle == xtext = <<>> /\ xfrags = 0 /\ xresult = None /\ xdone = FALSE
FetchIdle ==
    /\ fpc = "returned" /\ furls = <<>> /\ fmax = 1 /\ fstate = <<>>
    /\ fres = <<>> /\ fout = <<>> /\ results = EmptyCache
SumIdle == mpages = <<>> /\ msummary = None /\ mcalls = 0 /\ mdone = "no"
CleanIdle == cruns = 0 /\ cprev = EmptyCache /\ csaves = 0
WritersIdle ==
    /\ file = <<>> /\ wpc = <<>> /\ wloaded = <<>> /\ wout = <<>> /\ wlast = 0
AuxIdle == FetchIdle /\ SumIdle /\ CleanIdle /\ WritersIdle
\* the agentic loop before its first step
LoopIdle ==
    /\ pc = "start" /\ rounds = 0 /\ output = <<>> /\ search_query = None
    /\ history = <<UserMessage>> /\ events = <<>>
    /\ streamed = <<>> /\ summaries = <<>> /\ calls = NoCalls
    /\ modelKind = "free" /\ deltas = 0
    /\ active_tasks = EmptyCache /\ stopRequested = FALSE
    /\ failed = "none" /\ lastResp = NoResp

Init ==
    /\ pc = "start" /\ rounds = 0 /\ output = <<>> /\ search_query = None
    /\ history = <<UserMessage>> /\ events = <<>>
    /\ streamed = <<>> /\ summaries = <<>> /\ calls = NoCalls
    /\ modelKind \in {"free", "always"} /\ deltas = 0
    /\ active_tasks = EmptyCache /\ stopRequested = FALSE
    /\ failed = "none" /\ lastResp = NoResp
    /\ cache \in LoopCaches
    /\ SearchIdle /\ ExtractIdle /\ AuxIdle

\* ------------------------------------------------------------------------
\* The loop: one action per step of the sse generator between two yields
\* ------------------------------------------------------------------------
\* an except branch that swallows the exception
Fail_silent ==
    /\ events' = events
    /\ pc' = "closed"

\* an except branch that ends the stream as a normal completion
Fail_done ==
    /\ events' = Append(events, Done)
    /\ pc' = "closed"

\* the except branch of sse: one error event, then the generator ends
Fail ==
    /\ events' = Append(events, Error)
    /\ pc' = "closed"

\* a resumption that appends nothing
ResumedHistory_skip == history

\* a resumption that appends the summary without its delimiters
ResumedHistory_raw ==
    IF pc = "resume"
    THEN Append(history, [role |-> "assistant", text |-> summaries[Len(summaries)]])
    ELSE history

\* history after the code that follows the search-result yield (lines 94-104)
ResumedHistory ==
    IF pc = "resume"
    THEN Append(history, [role |-> "assistant",
                          text |-> RES_OPEN \o summaries[Len(summaries)] \o RES_CLOSE])
    ELSE history

\* from the start (or from the search-result yield) to the first token of the
\* next round: stream_generate yields "<think>" before it posts the request
NextRound ==
    /\ pc \in {"start", "resume"}
    /\ InRange(rounds)
    /\ history' = ResumedHistory
    /\ rounds' = rounds + 1
    /\ output' = THINK
    /\ streamed' = Append(streamed, <<THINK>>)
    /\ events' = Forward(events, THINK)
    /\ pc' = "post"
    /\ UNCHANGED <<search_query, summaries, calls, modelKind, deltas, active_tasks, stopRequested, cache, searchVars, extractVars, auxVars, failed, lastResp>>

\* prepare_messages raises (an image cannot be read) before any token
PrepareFail ==
    /\ pc \in {"start", "resume"}
    /\ InRange(rounds)
    /\ history' = ResumedHistory
    /\ rounds' = rounds + 1
    /\ output' = <<>>
    /\ streamed' = Append(streamed, <<>>)
    /\ Fail
    /\ failed' = "prepare"
    /\ UNCHANGED <<search_query, summaries, calls, modelKind, deltas,
                   active_tasks, stopRequested, cache, searchVars, extractVars, auxVars, lastResp>>

\* the for loop is exhausted: the final yield of done (line 106)
Exhausted ==
    /\ pc = "resume"
    /\ ~InRange(rounds)
    /\ history' = ResumedHistory
    /\ events' = Append(events, Done)
    /\ pc' = "closed"
    /\ UNCHANGED <<rounds, output, search_query, streamed, summaries, calls,
                   modelKind, deltas, active_tasks, stopRequested,
                   cache, searchVars, extractVars, auxVars, failed, lastResp>>

\* requests.post answered 200
PostOk ==
    /\ pc = "post"
    /\ pc' = "stream"
    /\ UNCHANGED <<rounds, output, search_query, history, events, streamed,
                   summaries, calls, modelKind, deltas, active_tasks,
                   stopRequested, cache, searchVars, extractVars, auxVars, failed, lastResp>>

\* requests.post answered a non-200 status (RuntimeError) or raised
PostFail ==
    /\ pc = "post"
    /\ Fail
    /\ failed' = "post"
    /\ UNCHANGED <<rounds, output, search_query, history, streamed, summaries,
                   calls, modelKind, deltas, active_tasks, stopRequested,
                   cache, searchVars, extractVars, auxVars, lastResp>>

\* the server stops the generation at the stop string "</search>"
Stopped == Contains(output, close_tag)

\* one content delta arrives: output += token, token event
Delta ==
    /\ pc = "stream"
    /\ ~Stopped
    /\ \E f \in Fragments \cup {Directive} :
        /\ IF modelKind = "always"
           THEN f = Directive /\ output = THINK /\ deltas' = deltas
           ELSE f \in Fragments /\ deltas < MaxDeltas /\ deltas' = deltas + 1
        /\ output' = output \o f
        /\ streamed' = [streamed EXCEPT ![Len(streamed)] = Append(@, f)]
        /\ events' = Forward(events, f)
    /\ UNCHANGED <<pc, rounds, search_query, history, summaries, calls, modelKind,
                   active_tasks, stopRequested, cache, searchVars, extractVars, auxVars, failed, lastResp>>

\* a line that yields nothing: not a data line, an empty delta, a chunk that
\* does not parse
SkipChunk ==
    /\ pc = "stream"
    /\ ~Stopped
    /\ modelKind = "free"
    /\ deltas < MaxDeltas
    /\ deltas' = deltas + 1
    /\ UNCHANGED <<pc, rounds, output, search_query, history, events, streamed,
                   summaries, calls, modelKind, active_tasks,
                   stopRequested, cache, searchVars, extractVars, auxVars, failed, lastResp>>

\* iter_lines raises in the middle of the stream
StreamBreak ==
    /\ pc = "stream"
    /\ Fail
    /\ failed' = "stream"
    /\ UNCHANGED <<rounds, output, search_query, history, streamed, summaries,
                   calls, modelKind, deltas, active_tasks, stopRequested,
                   cache, searchVars, extractVars, auxVars, lastResp>>

\* the stream of the round is over ([DONE], stop string, end of the response)
StreamOver == modelKind = "always" => Stopped

\* lines 71-74: no (or an empty) directive, yield done and return
EndNoDirective ==
    /\ pc = "stream"
    /\ StreamOver
    /\ search_query' = extract_search_query(output)
    /\ Falsy(extract_search_query(output))
    /\ events' = Append(events, Done)
    /\ pc' = "closed"
    /\ UNCHANGED <<rounds, output, history, streamed, summaries, calls, modelKind,
                   deltas, active_tasks, stopRequested, cache,
                   searchVars, extractVars, auxVars, failed, lastResp>>

\* lines 71-91: a directive; search_and_fetch, summarize_pages, the first
\* history append and the yield of the wrapped summary
EndWithSearch ==
    /\ pc = "stream"
    /\ StreamOver
    /\ search_query' = extract_search_query(output)
    /\ ~Falsy(extract_search_query(output))
    /\ \E resp \in LoopResponsesFor(modelKind) :
       \E pt \in LoopPageTexts(urls_of(serper_search(resp, loop_top_k))) :
        LET r == search_and_fetch(cache, search_query'[1], loop_top_k, resp, pt)
            summary == summarize_pages(r.result, SummaryText).summary
        IN  /\ cache_hit(cache, search_query'[1], loop_top_k)
                  => resp = [status |-> "ok", organic |-> <<>>]
            /\ cache' = r.cache
            /\ lastResp' = (IF r.provider = 1 THEN resp ELSE lastResp)
            /\ calls' = [searches |-> calls.searches + 1,
                         provider |-> calls.provider + r.provider,
                         batches |-> calls.batches + r.batches,
                         fetched |-> calls.fetched + r.fetched,
                         summarizer |-> calls.summarizer
                            + summarize_pages(r.result, SummaryText).model_calls,
                         saves |-> calls.saves + r.saves]
            /\ summaries' = Append(summaries, summary)
            /\ history' = Append(history, [role |-> "assistant", text |-> output])
            /\ events' = Append(events, Token(WrapResult(summary)))
    /\ pc' = "resume"
    /\ UNCHANGED <<rounds, output, streamed, modelKind, deltas, active_tasks, stopRequested, searchVars, extractVars, auxVars, failed>>

\* lines 71-77 with the completion call of summarize_pages raising: the
\* cache is already written, the exception reaches sse
SummarizeFail ==
    /\ pc = "stream"
    /\ StreamOver
    /\ search_query' = extract_search_query(output)
    /\ ~Falsy(extract_search_query(output))
    /\ \E resp \in LoopResponsesFor(modelKind) :
       \E pt \in LoopPageTexts(urls_of(serper_search(resp, loop_top_k))) :
        LET r == search_and_fetch(cache, search_query'[1], loop_top_k, resp, pt)
        IN  /\ cache_hit(cache, search_query'[1], loop_top_k)
                  => resp = [status |-> "ok", organic |-> <<>>]
            /\ valid_pages(r.result) # {}
            /\ cache' = r.cache
            /\ lastResp' = (IF r.provider = 1 THEN resp ELSE lastResp)
            /\ calls' = [searches |-> calls.searches + 1,
                         provider |-> calls.provider + r.provider,
                         batches |-> calls.batches + r.batches,
                         fetched |-> calls.fetched + r.fetched,
                         summarizer |-> calls.summarizer + 1,
                         saves |-> calls.saves + r.saves]
    /\ Fail
    /\ failed' = "summarizer"
    /\ UNCHANGED <<rounds, output, history, streamed, summaries, modelKind, deltas,
                   active_tasks, stopRequested, searchVars, extractVars, auxVars>>

\* main.py stop(task_id): sets the cancel event of a registered task; nothing
\* registers a task in active_tasks, and the loop reads no cancel event
stop(task_id) ==
    /\ pc # "closed"
    /\ ~stopRequested
    /\ stopRequested' = TRUE
    /\ active_tasks' = IF task_id \in DOMAIN active_tasks
                       THEN [active_tasks EXCEPT ![task_id] = TRUE]
                       ELSE active_tasks
    /\ UNCHANGED <<pc, rounds, output, search_query, history, events, streamed,
                   summaries, calls, modelKind, deltas, cache,
                   searchVars, extractVars, auxVars, failed, lastResp>>

LoopStep ==
    \/ NextRound \/ PrepareFail \/ Exhausted
    \/ PostOk \/ PostFail
    \/ Delta \/ SkipChunk \/ StreamBreak
    \/ EndNoDirective \/ EndWithSearch \/ SummarizeFail

Next == LoopStep \/ stop("task")

Spec == Init /\ [][Next]_vars
FairSpec == Spec /\ WF_vars(LoopStep)

\* ------------------------------------------------------------------------
\* search_and_fetch, step by step, called again and again by one caller
\* ------------------------------------------------------------------------
Queries == {<<"q">>, <<"r">>}
TopKs == 1..MaxTopK
OrganicLists == SeqsUpTo(RawItems, MaxOrganic)
Responses == {[status |-> "ok", organic |-> o] : o \in OrganicLists}
             \cup {[status |-> "error", organic |-> <<>>],
                   [status |-> "exception", organic |-> <<>>]}

StoredGood == [title |-> "t1", url |-> "u1", snippet |-> "s1", content |-> PageText]
StoredBad == [title |-> "t2", url |-> "u2", snippet |-> "s2", content |-> JinaError]
SearchCaches == {EmptyCache,
                 cache_put(EmptyCache, <<"q">>, <<>>),
                 cache_put(EmptyCache, <<"q">>, <<StoredGood>>),
                 cache_put(EmptyCache, <<"q">>, <<StoredBad, StoredGood>>)}

InitSearch ==
    /\ pc = "start" /\ rounds = 0 /\ output = <<>> /\ search_query = None
    /\ history = <<UserMessage>> /\ events = <<>>
    /\ streamed = <<>> /\ summaries = <<>> /\ calls = NoCalls
    /\ modelKind = "free" /\ deltas = 0
    /\ active_tasks = EmptyCache /\ stopRequested = FALSE
    /\ failed = "none" /\ lastResp = NoResp
    /\ cache \in SearchCaches
    /\ SearchIdle /\ ExtractIdle /\ AuxIdle

\* the record of a completed call
Completed(query, top_k, result, hit) ==
    [valid |-> TRUE, query |-> query, top_k |-> top_k, result |-> result, hit |-> hit,
     repeat |-> last.valid /\ last.query = query /\ last.top_k = top_k,
     prevlen |-> Len(last.result)]

\* lines 122-126: load_cache, the hit test and the return of the cached prefix
Call(query, top_k) ==
    /\ spc = "idle"
    /\ squery' = query /\ stop_k' = top_k
    /\ sresp' = NoResp /\ search_results' = <<>> /\ page_texts' = EmptyCache
    /\ scalls' = NoSearchCalls
    /\ IF cache_hit(cache, query, top_k)
       THEN /\ spc' = "idle"
            /\ loaded' = EmptyCache
            /\ last' = Completed(query, top_k, cached_prefix(cache, query, top_k), TRUE)
       ELSE /\ spc' = "serper"
            /\ loaded' = cache
            /\ last' = last
    /\ UNCHANGED <<loopVars, cache, extractVars, auxVars>>

\* line 129: serper_search
Serper(resp) ==
    /\ spc = "serper"
    /\ sresp' = resp
    /\ search_results' = serper_search(resp, stop_k)
    /\ scalls' = [scalls EXCEPT !.provider = @ + 1]
    /\ spc' = "fetch"
    /\ UNCHANGED <<loopVars, cache, squery, stop_k, loaded, page_texts, last, extractVars, auxVars>>

\* lines 130-133: fetch_multiple_pages on the non-empty urls
Fetch ==
    /\ spc = "fetch"
    /\ \E pt \in fetch_multiple_pages(urls_of(search_results)) : page_texts' = pt
    /\ scalls' = [scalls EXCEPT !.batches = @ + 1,
                                !.fetched = @ + Len(urls_of(search_results))]
    /\ spc' = "save"
    /\ UNCHANGED <<loopVars, cache, squery, stop_k, loaded, sresp, search_results,
                   last, extractVars, auxVars>>

\* lines 136-151: combine, cache[query] = output, save_cache (the whole
\* loaded mapping is written), return
Save ==
    /\ spc = "save"
    /\ LET out == combine(search_results, page_texts)
       IN  /\ cache' = cache_put(loaded, squery, out)
           /\ last' = Completed(squery, stop_k, out, FALSE)
    /\ scalls' = [scalls EXCEPT !.saves = @ + 1]
    /\ loaded' = EmptyCache
    /\ spc' = "idle"
    /\ UNCHANGED <<loopVars, squery, stop_k, sresp, search_results, page_texts,
                   extractVars, auxVars>>

NextSearch ==
    \/ \E query \in Queries, top_k \in TopKs : Call(query, top_k)
    \/ \E resp \in Responses : Serper(resp)
    \/ Fetch
    \/ Save

SpecSearch == InitSearch /\ [][NextSearch]_vars

\* ------------------------------------------------------------------------
\* extract_search_query applied to texts built from fragments
\* ------------------------------------------------------------------------
First == <<"f", "i", "r", "s", "t">>
Second == <<"s", "e", "c", "o", "n", "d">>
Filler == <<" ", "f", "i", "l", "l", "e", "r", " ">>
ExtractFragments == {open_tag, close_tag, First, Second, Filler}

InitExtract ==
    /\ pc = "start" /\ rounds = 0 /\ output = <<>> /\ search_query = None
    /\ history = <<UserMessage>> /\ events = <<>>
    /\ streamed = <<>> /\ summaries = <<>> /\ calls = NoCalls
    /\ modelKind = "free" /\ deltas = 0
    /\ active_tasks = EmptyCache /\ stopRequested = FALSE
    /\ failed = "none" /\ lastResp = NoResp
    /\ cache = EmptyCache
    /\ SearchIdle /\ ExtractIdle /\ AuxIdle

\* the caller's text grows by one fragment
AppendFragment(f) ==
    /\ ~xdone
    /\ xfrags < MaxFrags
    /\ xtext' = xtext \o f
    /\ xfrags' = xfrags + 1
    /\ UNCHANGED <<loopVars, cache, searchVars, xresult, xdone, auxVars>>

\* search_query = extract_search_query(text)
Extract ==
    /\ ~xdone
    /\ xresult' = extract_search_query(xtext)
    /\ xdone' = TRUE
    /\ UNCHANGED <<loopVars, cache, searchVars, xtext, xfrags, auxVars>>

NextExtract == (\E f \in ExtractFragments : AppendFragment(f)) \/ Extract

SpecExtract == InitExtract /\ [][NextExtract]_vars

\* ------------------------------------------------------------------------
\* fetch_multiple_pages with its worker pool (utils/search.py)
\* ------------------------------------------------------------------------
FetchUrls == {"u1", "u2", "u3"}
\* a Markdown url artefact "(http...)" or "[http...]" is one element of a text
Artefact == "(http)"
RawTexts == {<<" ", Artefact, "p", "g", "\n">>}
\* what the page service answers: a status and a body, or the request raises
\* (timeout, connection error)
PageResponses ==
    {[kind |-> "status", code |-> 200, text |-> t] : t \in RawTexts}
        \cup {[kind |-> "status", code |-> 500, text |-> <<"x">>],
              [kind |-> "raise", code |-> 0, text |-> <<>>]}
NoPage == [kind |-> "none", code |-> 0, text |-> <<>>]
FetchFailed(url) == ErrorMarker \o <<" ", "F", " ", url>>
clean_artefacts(text) == SelectSeq(text, LAMBDA ch : ch # Artefact)

fetch_page_content(url, resp) ==
    IF resp.kind = "raise" THEN FetchFailed(url)
    ELSE IF resp.code = 200 THEN strip(clean_artefacts(resp.text))
    ELSE JinaError

\* results[url] = value
store_result_unless_error(res, url, value) ==
    IF StartsWith(value, ErrorMarker) THEN res ELSE cache_put(res, url, value)

store_result(res, url, value) == cache_put(res, url, value)

Futures == 1..Len(furls)
InFlight == {i \in Futures : fstate[i] = "running"}
Queued == {i \in Futures : fstate[i] = "queued"}

InitFetch ==
    /\ fpc = "collecting"
    /\ furls \in SeqsUpTo(FetchUrls, MaxUrls)
    /\ fmax \in 1..MaxWorkers
    /\ fstate = [i \in 1..Len(furls) |-> "queued"]
    /\ fres = [i \in 1..Len(furls) |-> NoPage]
    /\ fout = [i \in 1..Len(furls) |-> <<>>]
    /\ results = EmptyCache
    /\ LoopIdle /\ cache = EmptyCache /\ SearchIdle /\ ExtractIdle /\ SumIdle /\ CleanIdle /\ WritersIdle

\* a pool that starts a thread for every submitted call
WorkerFree_unbounded == TRUE

\* ThreadPoolExecutor(max_workers): a worker thread is idle or can be started
WorkerFree == Cardinality(InFlight) < fmax

\* a free worker takes the oldest queued call off the executor's work queue
StartFetch(i) ==
    /\ fpc = "collecting"
    /\ i \in Queued /\ \A j \in Queued : i <= j
    /\ WorkerFree
    /\ fstate' = [fstate EXCEPT ![i] = "running"]
    /\ UNCHANGED <<fpc, furls, fmax, fres, fout, results>>
    /\ UNCHANGED <<loopVars, cache, searchVars, extractVars, sumVars, cleanVars, writerVars>>

\* fetch_page_content(url) returns in its worker thread
FinishFetch(i) ==
    /\ fpc = "collecting"
    /\ i \in InFlight
    /\ \E resp \in PageResponses :
        /\ fres' = [fres EXCEPT ![i] = resp]
        /\ fout' = [fout EXCEPT ![i] = fetch_page_content(furls[i], resp)]
    /\ fstate' = [fstate EXCEPT ![i] = "done"]
    /\ UNCHANGED <<fpc, furls, fmax, results>>
    /\ UNCHANGED <<loopVars, cache, searchVars, extractVars, sumVars, cleanVars, writerVars>>

\* one iteration of `for future in as_completed(future_to_url)`
Collect(i) ==
    /\ fpc = "collecting"
    /\ i \in Futures /\ fstate[i] = "done"
    /\ results' = store_result(results, furls[i], fout[i])
    /\ fstate' = [fstate EXCEPT ![i] = "collected"]
    /\ UNCHANGED <<fpc, furls, fmax, fres, fout>>
    /\ UNCHANGED <<loopVars, cache, searchVars, extractVars, sumVars, cleanVars, writerVars>>

\* as_completed is exhausted, the executor shuts down, `return results`
ReturnResults ==
    /\ fpc = "collecting"
    /\ \A i \in Futures : fstate[i] = "collected"
    /\ fpc' = "returned"
    /\ UNCHANGED <<furls, fmax, fstate, fres, fout, results>>
    /\ UNCHANGED <<loopVars, cache, searchVars, extractVars, sumVars, cleanVars, writerVars>>

NextFetch ==
    \/ \E i \in Futures : StartFetch(i)
    \/ \E i \in Futures : FinishFetch(i)
    \/ \E i \in Futures : Collect(i)
    \/ ReturnResults

SpecFetch == InitFetch /\ [][NextFetch]_vars

\* worker threads and the collecting thread keep running, and every request
\* ends (requests.get has timeout=30)
FairSpecFetch == SpecFetch /\ WF_vars(NextFetch)

\* ------------------------------------------------------------------------
\* summarize_pages applied to a list of pages (utils/search.py)
\* ------------------------------------------------------------------------
\* a content that is the marker alone, and one that holds it but not in front
MarkerOnly == ErrorMarker
MarkerInside == <<"x">> \o ErrorMarker
SumContents == Contents \cup {MarkerOnly, MarkerInside}
SumPages ==
    {[title |-> "t", url |-> "u1", snippet |-> "s", content |-> c] : c \in SumContents}

InitSummarize ==
    /\ mpages \in SeqsUpTo(SumPages, MaxPages)
    /\ msummary = None /\ mcalls = 0 /\ mdone = "no"
    /\ LoopIdle /\ cache = EmptyCache /\ SearchIdle /\ ExtractIdle /\ FetchIdle /\ CleanIdle /\ WritersIdle

\* summarize_pages(pages) returns
Summarize ==
    /\ mdone = "no"
    /\ LET r == summarize_pages(mpages, SummaryText)
       IN  msummary' = Some(r.summary) /\ mcalls' = r.model_calls
    /\ mdone' = "returned"
    /\ UNCHANGED <<mpages, loopVars, cache, searchVars, extractVars, fetchVars, cleanVars, writerVars>>

\* the completion call is made and raises
SummarizeRaises ==
    /\ mdone = "no"
    /\ summarize_pages(mpages, SummaryText).model_calls = 1
    /\ mcalls' = 1
    /\ mdone' = "raised"
    /\ UNCHANGED <<mpages, msummary, loopVars, cache, searchVars, extractVars, fetchVars, cleanVars, writerVars>>

NextSummarize == Summarize \/ SummarizeRaises

SpecSummarize == InitSummarize /\ [][NextSummarize]_vars

\* ------------------------------------------------------------------------
\* clean_cache runs on the store (utils/search.py)
\* ------------------------------------------------------------------------
StoredEmpty == [title |-> "t3", url |-> "", snippet |-> "s3", content |-> <<>>]
StoredInside == [title |-> "t4", url |-> "u4", snippet |-> "s4", content |-> MarkerInside]
StoredItems == {StoredGood, StoredBad, StoredEmpty, StoredInside}
StoredLists == SeqsUpTo(StoredItems, MaxStored)
CleanCaches ==
    UNION {[D -> StoredLists] : D \in SUBSET Queries}

InitClean ==
    /\ cache \in CleanCaches
    /\ cruns = 0 /\ cprev = EmptyCache /\ csaves = 0
    /\ LoopIdle /\ SearchIdle /\ ExtractIdle /\ FetchIdle /\ SumIdle /\ WritersIdle

\* one run of clean_cache: load, filter every list, save if changed
CleanCache ==
    /\ LET r == clean_cache(cache)
       IN  /\ cache' = (IF r.changed THEN r.cache ELSE cache)
           /\ csaves' = (IF r.changed THEN 1 ELSE 0)
    /\ cprev' = (IF cruns = 0 THEN cache ELSE cprev)
    /\ cruns' = (IF cruns < 2 THEN cruns + 1 ELSE cruns)
    /\ UNCHANGED <<loopVars, searchVars, extractVars, fetchVars, sumVars, writerVars>>

\* a search_and_fetch miss writes the list it combined under its query
PutEntry(query, out) ==
    /\ cache' = cache_put(cache, query, out)
    /\ cruns' = 0 /\ cprev' = EmptyCache /\ csaves' = 0
    /\ UNCHANGED <<loopVars, searchVars, extractVars, fetchVars, sumVars, writerVars>>

NextClean ==
    \/ CleanCache
    \/ \E query \in Queries, out \in StoredLists : PutEntry(query, out)

SpecClean == InitClean /\ [][NextClean]_vars

\* ------------------------------------------------------------------------
\* Two search_and_fetch invocations on one cache file (utils/search.py)
\* ------------------------------------------------------------------------
\* The file's text is a sequence of units: braces, a key, list brackets and
\* one unit per stored result, so that a longer list makes a longer text.
NoItem == [title |-> "", url |-> "", snippet |-> "", content |-> <<>>]
Sym(kind) == [kind |-> kind, key |-> <<>>, item |-> NoItem]
KeyUnit(k) == [kind |-> "key", key |-> k, item |-> NoItem]
ItemUnit(it) == [kind |-> "item", key |-> <<>>, item |-> it]
KeyOrder == <<<<"q">>, <<"r">>>>

\* json.dump(cache): the text written for a mapping
EntryText(c, k) ==
    IF k \in DOMAIN c
    THEN <<KeyUnit(k), Sym("[")>> \o [i \in 1..Len(c[k]) |-> ItemUnit(c[k][i])]
            \o <<Sym("]")>>
    ELSE <<>>
dumps(c) ==
    <<Sym("{")>> \o EntryText(c, KeyOrder[1]) \o EntryText(c, KeyOrder[2]) \o <<Sym("}")>>

\* json.load: the entries from position i on, up to the closing brace that
\* must end the text; anything else fails
RECURSIVE ParseEntries(_, _, _)
ParseEntries(f, i, acc) ==
    IF i > Len(f) THEN [ok |-> FALSE, cache |-> EmptyCache]
    ELSE IF f[i].kind = "}" THEN [ok |-> i = Len(f), cache |-> acc]
    ELSE IF f[i].kind # "key" \/ i + 1 > Len(f) \/ f[i + 1].kind # "["
         THEN [ok |-> FALSE, cache |-> EmptyCache]
    ELSE LET ends == {j \in (i + 2)..Len(f) : f[j].kind # "item"}
         IN  IF ends = {} THEN [ok |-> FALSE, cache |-> EmptyCache]
             ELSE LET j == CHOOSE x \in ends : \A y \in ends : x <= y
                  IN  IF f[j].kind # "]" THEN [ok |-> FALSE, cache |-> EmptyCache]
                      ELSE ParseEntries(f, j + 1,
                              cache_put(acc, f[i].key,
                                  [n \in 1..(j - i - 2) |-> f[i + 1 + n].item]))

\* load_cache: {} when the file is absent or json.load raises
load_cache(f) ==
    IF f = <<>> \/ f[1].kind # "{" THEN EmptyCache
    ELSE LET r == ParseEntries(f, 2, EmptyCache)
         IN  IF r.ok THEN r.cache ELSE EmptyCache

\* a write of text at offset 0 of a file opened without O_APPEND: what the
\* file held beyond the written length stays
write_at_start(f, text) == text \o SubSeq(f, Len(text) + 1, Len(f))

Writers == {1, 2}
WriterQuery(p) == IF p = 1 THEN <<"q">> ELSE <<"r">>
InitStores == {<<>>} \cup {dumps(c) : c \in SearchCaches \ {EmptyCache}}

InitWriters ==
    /\ file \in InitStores
    /\ wpc = [p \in Writers |-> "load"]
    /\ wloaded = [p \in Writers |-> EmptyCache]
    /\ wout = [p \in Writers |-> <<>>]
    /\ wlast = 0
    /\ LoopIdle /\ cache = EmptyCache /\ SearchIdle /\ ExtractIdle
    /\ FetchIdle /\ SumIdle /\ CleanIdle

\* lines 122-126: load_cache and the hit test; a hit returns at once
LoadStore(p) ==
    /\ wpc[p] = "load"
    /\ wloaded' = [wloaded EXCEPT ![p] = load_cache(file)]
    /\ wpc' = [wpc EXCEPT ![p] =
                 IF cache_hit(load_cache(file), WriterQuery(p), MaxTopK)
                 THEN "done" ELSE "search"]
    /\ UNCHANGED <<file, wout, wlast>>
    /\ UNCHANGED <<loopVars, cache, searchVars, extractVars, fetchVars, sumVars, cleanVars>>

\* lines 129-147: provider, fetcher, combine, cache[query] = output
SearchAndCombine(p) ==
    /\ wpc[p] = "search"
    /\ \E resp \in Responses :
       \E pt \in fetch_multiple_pages(urls_of(serper_search(resp, MaxTopK))) :
         wout' = [wout EXCEPT ![p] = combine(serper_search(resp, MaxTopK), pt)]
    /\ wpc' = [wpc EXCEPT ![p] = "open"]
    /\ UNCHANGED <<file, wloaded, wlast>>
    /\ UNCHANGED <<loopVars, cache, searchVars, extractVars, fetchVars, sumVars, cleanVars>>

\* save_cache line 38: open(CACHE_FILE, "w") truncates the file
OpenStore(p) ==
    /\ wpc[p] = "open"
    /\ file' = <<>>
    /\ wpc' = [wpc EXCEPT ![p] = "dump"]
    /\ UNCHANGED <<wloaded, wout, wlast>>
    /\ UNCHANGED <<loopVars, cache, searchVars, extractVars, fetchVars, sumVars, cleanVars>>

\* save_cache line 39 and the close: the text of the local dict is written
\* from the start of the file
DumpStore(p) ==
    /\ wpc[p] = "dump"
    /\ file' = write_at_start(file,
                   dumps(cache_put(wloaded[p], WriterQuery(p), wout[p])))
    /\ wlast' = p
    /\ wpc' = [wpc EXCEPT ![p] = "done"]
    /\ UNCHANGED <<wloaded, wout>>
    /\ UNCHANGED <<loopVars, cache, searchVars, extractVars, fetchVars, sumVars, cleanVars>>

NextWriters ==
    \/ \E p \in Writers : LoadStore(p)
    \/ \E p \in Writers : SearchAndCombine(p)
    \/ \E p \in Writers : OpenStore(p)
    \/ \E p \in Writers : DumpStore(p)

SpecWriters == InitWriters /\ [][NextWriters]_vars

\* ------------------------------------------------------------------------
\* Properties
\* ------------------------------------------------------------------------
LastEvent == events[Len(events)]
EndedWith(type) == pc = "closed" /\ events # <<>> /\ LastEvent.type = type
DoneCount == Cardinality({i \in 1..Len(events) : events[i].type = "done"})
TokenEvents(toks) == [i \in 1..Len(toks) |-> [type |-> "token", content |-> toks[i]]]
TokenTexts(evs) == [i \in 1..Len(evs) |-> evs[i].content]

OpenPositions(text) == {i \in 0..Len(text) : OccursAt(text, open_tag, i)}
ClosePositions(text) == {j \in 0..Len(text) : OccursAt(text, close_tag, j)}
\* an open delimiter followed later by a close delimiter
HasCompleteSpan(text) ==
    \E i \in OpenPositions(text), j \in ClosePositions(text) : i + Len(open_tag) <= j
Max(S) == CHOOSE x \in S : \A y \in S : y <= x
\* the text between the nearest open delimiter before the rightmost close
\* delimiter and that close delimiter
LastSpanInner(text) ==
    LET j == Max(ClosePositions(text))
        i == Max({k \in OpenPositions(text) : k + Len(open_tag) <= j})
    IN  SubSeq(text, i + Len(open_tag) + 1, j)
\* t is s without its leading and trailing whitespace
IsTrimOf(t, s) ==
    \E a \in 1..(Len(s) + 1), b \in 0..Len(s) :
        /\ t = SubSeq(s, a, b)
        /\ \A k \in 1..Len(s) : (k < a \/ k > b) => s[k] \in Whitespace
        /\ t # <<>> => (t[1] \notin Whitespace /\ t[Len(t)] \notin Whitespace)
Example == open_tag \o First \o close_tag \o Filler \o open_tag \o Second \o close_tag

\* C1: the event sequence of an invocation is finite and ends with exactly
\* one terminal event (done or error): a terminal event is always the last
\* event, the stream is closed exactly when a terminal event was sent, and
\* every invocation is eventually closed.
C1_TerminatedOnce ==
    /\ [](/\ \A i \in 1..Len(events) : Terminal(events[i]) => i = Len(events)
          /\ (pc = "closed") <=> (events # <<>> /\ Terminal(LastEvent)))
    /\ <>(pc = "closed")
C1_Witness == pc = "closed" /\ rounds >= 2 /\ Len(events) >= 5 /\ LastEvent.type = "error"

\* C2: with a model that emits a non-empty directive in every round, at
\* most 20 rounds and 20 search-and-summarize steps are started, the loop
\* terminates, and a stream that ends normally has run 20 rounds and holds
\* exactly one done event, sent after the 20th round's output.
C2_RoundBound ==
    /\ [](/\ rounds <= 20 /\ calls.searches <= 20 /\ Len(summaries) <= 20
          /\ (modelKind = "always" /\ EndedWith("done")) =>
                /\ rounds = 20 /\ calls.searches = 20 /\ Len(summaries) = 20
                /\ DoneCount = 1
                /\ Len(streamed) = 20 /\ HasCompleteSpan(Concat(streamed[20]))
                /\ Len(events) = 61
                /\ events[59] = [type |-> "token", content |-> streamed[20][2]]
                /\ events[60].type = "token")
    /\ [](modelKind = "always" => <>(pc = "closed"))
C2_Witness == modelKind = "always" /\ EndedWith("done") /\ rounds = 20 /\ DoneCount = 1

\* C3: once stop has been requested for the running task, the loop starts
\* no further round and the only event it still sends is the terminal one.
C3_StopEndsLoop ==
    [][stopRequested =>
          /\ rounds' = rounds
          /\ events' # events => Terminal(events'[Len(events')])]_vars

\* C4: for a text with a complete directive span, extract_search_query
\* returns the trimmed inner text of the last complete span (rightmost close
\* delimiter, nearest open delimiter before it); for
\* "<search>first</search> filler <search>second</search>" it is "second".
C4_LastSpanWins ==
    (xdone /\ HasCompleteSpan(xtext)) =>
        /\ xresult # None
        /\ IsTrimOf(xresult[1], LastSpanInner(xtext))
        /\ xtext = Example => xresult = <<Second>>
C4_Witness == xdone /\ xtext = Example /\ xresult = <<Second>>

\* C5: when a round ends with an output that has no complete directive
\* span, extraction gives none and the loop sends done and stops: no
\* orchestrator or summarizer call, no cache write, no history append.
C5_NoSpanEndsLoop ==
    [][(/\ pc = "stream" /\ pc' # "stream"
        /\ events'[Len(events')].type # "error"
        /\ ~HasCompleteSpan(output)) =>
          /\ search_query' = None
          /\ events' = Append(events, [type |-> "done", content |-> <<>>])
          /\ pc' = "closed"
          /\ calls' = calls /\ cache' = cache
          /\ history' = history /\ summaries' = summaries]_vars
C5_Witness ==
    /\ EndedWith("done") /\ search_query = None
    /\ OpenPositions(output) # {} /\ ClosePositions(output) = {}
    /\ calls.searches = 0 /\ Len(history) = 1

\* C6: when the model emits no directive, the stream is the token events of
\* the round, one per token the model stream yielded and in its order, then
\* exactly one done; the token texts concatenate to the round's full output.
C6_TokensThenDone ==
    (EndedWith("done") /\ ~HasCompleteSpan(Concat(streamed[1]))) =>
        /\ rounds = 1
        /\ events = TokenEvents(streamed[1]) \o <<[type |-> "done", content |-> <<>>]>>
        /\ Concat(TokenTexts(SubSeq(events, 1, Len(events) - 1))) = Concat(streamed[1])
        /\ DoneCount = 1
C6_Witness ==
    /\ EndedWith("done") /\ rounds = 1 /\ ~HasCompleteSpan(output)
    /\ Len(events) >= 4 /\ \E i \in 1..Len(events) : events[i].content = <<" ">>

ResultSpan(summary) == <<"\n">> \o RES_OPEN \o summary \o RES_CLOSE \o <<"\n">>

\* C7: when the first round ends with a directive and the second has none,
\* the stream is exactly: the first round's tokens (ending in the close
\* delimiter), one token event with the summary in a search-result span, the
\* second round's tokens, done; the search-result event never comes before
\* all tokens of the round that asked for it.
C7_OneSearchRound ==
    /\ (EndedWith("done") /\ rounds = 2) =>
          /\ Len(summaries) = 1
          /\ events = TokenEvents(streamed[1])
                      \o <<[type |-> "token", content |-> ResultSpan(summaries[1])]>>
                      \o TokenEvents(streamed[2])
                      \o <<[type |-> "done", content |-> <<>>]>>
          /\ EndsWith(Concat(streamed[1]), close_tag)
    /\ Len(summaries) >= 1 =>
          /\ Len(events) > Len(streamed[1])
          /\ SubSeq(events, 1, Len(streamed[1]) + 1) =
                TokenEvents(streamed[1])
                \o <<[type |-> "token", content |-> ResultSpan(summaries[1])]>>
C7_Witness ==
    /\ EndedWith("done") /\ rounds = 2 /\ Len(streamed[2]) >= 2
    /\ Len(streamed[1]) >= 4

\* C8: a call whose query has a stored list of length >= top_k returns the
\* first top_k stored results in stored order, calls neither the provider
\* nor the fetcher and does not write the cache.
C8_HitServedFromCache ==
    [][(/\ spc = "idle"
        /\ squery' \in DOMAIN cache
        /\ Len(cache[squery']) >= stop_k') =>
          /\ spc' = "idle"
          /\ last'.valid /\ last'.query = squery' /\ last'.top_k = stop_k'
          /\ last'.result = [i \in 1..stop_k' |-> cache[squery'][i]]
          /\ cache' = cache
          /\ scalls' = [provider |-> 0, batches |-> 0, fetched |-> 0, saves |-> 0]]_vars
C8_Witness ==
    /\ spc = "idle" /\ last.valid /\ last.hit
    /\ Len(cache[last.query]) > last.top_k
    /\ Len(last.result) = last.top_k

StoredAtLeast(c, query, top_k) ==
    IF query \in DOMAIN c THEN Len(c[query]) >= top_k ELSE FALSE

\* C9: a call whose query is absent or stored shorter than top_k is a miss:
\* it calls the provider and the fetcher once each and overwrites the entry
\* of that query (and no other) with the combined list, which it returns and
\* which has at least top_k results when the provider answered with at least
\* top_k results.
C9_MissRefreshes ==
    [][/\ (spc = "idle" /\ ~StoredAtLeast(cache, squery', stop_k')) =>
              (spc' = "serper" /\ cache' = cache)
       /\ spc' # "idle" => ~StoredAtLeast(cache', squery', stop_k')
       /\ spc = "save" =>
              /\ spc' = "idle"
              /\ scalls'.provider = 1 /\ scalls'.batches = 1 /\ scalls'.saves = 1
              /\ DOMAIN cache' = DOMAIN cache \cup {squery}
              /\ cache'[squery] = last'.result
              /\ \A x \in DOMAIN cache : x # squery => cache'[x] = cache[x]
              /\ last'.query = squery /\ ~last'.hit
              /\ Len(last'.result) = (IF sresp.status = "ok"
                                      THEN Min(stop_k, Len(sresp.organic)) ELSE 0)
              /\ (sresp.status = "ok" /\ Len(sresp.organic) >= stop_k) =>
                      Len(last'.result) >= stop_k
              /\ \A i \in 1..Len(last'.result) :
                      /\ last'.result[i].title = sresp.organic[i].title
                      /\ last'.result[i].url = sresp.organic[i].link]_vars
C9_Witness ==
    /\ spc = "idle" /\ last.valid /\ ~last.hit /\ last.repeat
    /\ last.prevlen < last.top_k
    /\ Len(last.result) >= last.top_k
    /\ cache[last.query] = last.result

\* C10 as stated: a second call right after a first with the same query and
\* top_k returns the first call's list and leaves the cache as the first
\* call left it, whatever the first call got from the provider.
C10_Idempotent ==
    [][(spc \in {"idle", "save"} /\ spc' = "idle" /\ last'.repeat) =>
          (last'.result = last.result /\ cache' = cache)]_vars

\* C10 amended: when the first call returned at least top_k results, the
\* second call is a hit that returns the same list, leaves the cache as it
\* was and makes no provider, fetcher or cache-write call; when the first
\* call returned fewer than top_k results, the second call is a miss that
\* asks the provider again.
C10_IdempotentWhenFull ==
    [][(spc \in {"idle", "save"} /\ spc' = "idle" /\ last'.repeat) =>
          /\ Len(last.result) >= last.top_k =>
                /\ last'.hit
                /\ last'.result = last.result
                /\ cache' = cache
                /\ scalls' = [provider |-> 0, batches |-> 0, fetched |-> 0, saves |-> 0]
          /\ Len(last.result) < last.top_k =>
                (~last'.hit /\ scalls'.provider = 1)]_vars
C10_Witness ==
    /\ spc = "idle" /\ last.valid /\ last.repeat /\ last.hit
    /\ last.prevlen = last.top_k /\ last.top_k = MaxTopK
    /\ scalls = [provider |-> 0, batches |-> 0, fetched |-> 0, saves |-> 0]

\* ---- C11 ----
IsPrefix(s, t) == Len(s) <= Len(t) /\ SubSeq(t, 1, Len(s)) = s
FuturesOf(url) == {i \in Futures : furls[i] = url}
Succeeded(i) == fres[i].kind = "status" /\ fres[i].code = 200
\* C11: when fetch_multiple_pages returns, the mapping has exactly one entry
\* per requested url; the entry of a url whose fetch failed (error status,
\* timeout or other exception) starts with the failure marker, the entry of a
\* url whose fetch succeeded is the fetched text (artefacts removed, trimmed);
\* and while the calls complete, no step removes an entry, and the only entry
\* a step writes is the one of the url whose call it collects.
C11_OneEntryPerUrl ==
    /\ [](fpc = "returned" =>
            /\ DOMAIN results = Range(furls)
            /\ \A i \in Futures :
                LET entry == results[furls[i]] IN
                /\ \E j \in FuturesOf(furls[i]) : entry = fout[j]
                /\ FuturesOf(furls[i]) = {i} =>
                    IF Succeeded(i)
                    THEN /\ IsTrimOf(entry, clean_artefacts(fres[i].text))
                         /\ Artefact \notin Range(entry)
                    ELSE StartsWith(entry, ErrorMarker))
    /\ [][\A u \in DOMAIN results :
            /\ u \in DOMAIN results'
            /\ results'[u] # results[u] =>
                \E i \in FuturesOf(u) : fstate[i] = "done" /\ fstate'[i] = "collected"]_vars

\* three urls, the second one timed out, the other two were fetched
C11_Witness ==
    /\ fpc = "returned" /\ furls = <<"u1", "u2", "u3">>
    /\ fres[2].kind = "raise" /\ Succeeded(1) /\ Succeeded(3)
    /\ results["u1"] = PageText /\ results["u3"] = PageText
    /\ results["u2"] = FetchFailed("u2")

\* ---- C12 ----
NoValidContent(pages) ==
    \A i \in 1..Len(pages) :
        \/ pages[i].content = <<>>
        \/ /\ Len(pages[i].content) >= Len(ErrorMarker)
           /\ SubSeq(pages[i].content, 1, Len(ErrorMarker)) = ErrorMarker
\* C12: once summarize_pages has run on a list in which every content is
\* empty or starts with the failure marker (the empty list included), it has
\* returned the no-valid-content sentinel and made no completion call; on a
\* list with at least one valid content it has made exactly one call.
C12_SentinelWithoutCall ==
    mdone # "no" =>
        IF NoValidContent(mpages)
        THEN mdone = "returned" /\ msummary = <<NoValidSentinel>> /\ mcalls = 0
        ELSE mcalls = 1 /\ (mdone = "returned" => msummary = <<SummaryText>>)

\* an empty page, a failed page and a page that is the marker alone
C12_Witness ==
    /\ mdone = "returned" /\ Len(mpages) = 3
    /\ mpages[1].content = <<>> /\ mpages[2].content = JinaError
    /\ mpages[3].content = MarkerOnly
    /\ msummary = <<NoValidSentinel>> /\ mcalls = 0

\* ---- C13 ----
ErrorCount == Cardinality({i \in 1..Len(events) : events[i].type = "error"})
ModelStreamFailed == failed \in {"prepare", "post", "stream"}
\* C13: when the main model stream fails in some round (its messages cannot
\* be prepared, the request is answered with a non-success status or raises,
\* or the response stream breaks), the generator ends without raising: the
\* stream is closed with exactly one error event, which is its last event,
\* every event before it is a token event, no done event is emitted, and
\* no step ever takes back an event already emitted.
C13_FailureIsAnErrorEvent ==
    /\ [](ModelStreamFailed =>
            /\ pc = "closed"
            /\ events # <<>> /\ events[Len(events)] = Error
            /\ ErrorCount = 1
            /\ DoneCount = 0
            /\ \A i \in 1..(Len(events) - 1) : events[i].type = "token")
    /\ [][IsPrefix(events, events')]_vars

\* the request of the second round is refused after a search round: the
\* first round's tokens and the search result stay, then the error event
C13_Witness ==
    /\ failed = "post" /\ rounds = 2 /\ Len(summaries) = 1
    /\ Len(events) >= 4
    /\ events[Len(events) - 2] = Token(WrapResult(summaries[1]))
    /\ events[Len(events) - 1] = Token(THINK)
    /\ events[Len(events)] = Error

\* ---- C14 ----
ProviderFailed(resp) == resp.status # "ok" \/ resp.organic = <<>>
\* C14: every provider call of the loop ends without an exception of
\* serper_search. When the provider answers with a non-success status, the
\* request raises or the result set is empty, nothing is found: the query's
\* stored list is empty and the round emits the search-result event (holding
\* the no-valid-content sentinel), not an error event. Otherwise the results
\* used are the first min(limit, n) provider results, in the provider's order.
C14_ProviderNeverFails ==
    [][calls'.provider = calls.provider + 1 =>
        LET resp == lastResp'
            stored == cache'[search_query'[1]]
            n == Len(resp.organic)
            m == IF loop_top_k < n THEN loop_top_k ELSE n
        IN  IF ProviderFailed(resp)
            THEN /\ stored = <<>>
                 /\ failed' = "none" /\ pc' = "resume"
                 /\ events' = Append(events,
                        [type |-> "token",
                         content |-> <<"\n">> \o RES_OPEN \o NoValidSentinel
                                        \o RES_CLOSE \o <<"\n">>])
            ELSE /\ Len(stored) = m
                 /\ \A i \in 1..m :
                        /\ stored[i].title = resp.organic[i].title
                        /\ stored[i].url = resp.organic[i].link
                        /\ stored[i].snippet = resp.organic[i].snippet]_vars

\* the provider request raised in the second round: a search-result event
C14_Witness ==
    /\ pc = "resume" /\ rounds = 2 /\ calls.provider = 2
    /\ lastResp.status = "exception"
    /\ cache[search_query[1]] = <<>>
    /\ events[Len(events)].type = "token"
    /\ StartsWith(events[Len(events)].content, <<"\n">> \o RES_OPEN \o ErrorMarker)

\* ---- C15 ----
\* C15 as stated: in every reachable state the history has length
\* 1 + 2 * n for n the number of completed search rounds, whether the round
\* in progress is counted from its summary on or from its second append on.
C15_HistoryLength ==
    \E n \in {Len(summaries), Len(summaries) - 1} :
        n >= 0 /\ Len(history) = 1 + 2 * n

AtResultYield == pc = "resume"
\* C15 amended: the history has length 1 + 2 * (search rounds summarized so
\* far), less one while the loop is suspended at the search-result event,
\* where the round's raw output is appended and the wrapped summary is not
\* yet. It starts with the user message; search round k contributes first its
\* raw accumulated output, delimiters included, then its wrapped summary;
\* a round without directive and a failing round append nothing; and no
\* step changes or removes a message.
C15_HistoryGrowsByTwo ==
    /\ [](/\ Len(history) = 1 + 2 * Len(summaries) - (IF AtResultYield THEN 1 ELSE 0)
          /\ history[1] = UserMessage
          /\ \A k \in 1..Len(summaries) :
                /\ history[2 * k] = [role |-> "assistant", text |-> Concat(streamed[k])]
                /\ 2 * k + 1 <= Len(history) =>
                      history[2 * k + 1] =
                          [role |-> "assistant",
                           text |-> RES_OPEN \o summaries[k] \o RES_CLOSE])
    /\ [][IsPrefix(history, history')]_vars

\* a search round, then a round without directive: three messages
C15_Witness ==
    /\ EndedWith("done") /\ rounds = 2 /\ Len(summaries) = 1 /\ Len(history) = 3
    /\ Contains(history[2].text, open_tag) /\ Contains(history[2].text, close_tag)
    /\ Contains(history[3].text, summaries[1])

\* ---- C16 ----
\* the step that ends a round's stream and evaluates its accumulated output
RoundEvaluated == pc = "stream" /\ pc' # "stream" /\ failed' # "stream"
Blank(text) == \A i \in 1..Len(text) : text[i] \in Whitespace
\* C16 as stated: whenever the evaluated output holds a complete directive
\* span, whatever its inner text, the round invokes search_and_fetch with
\* the extracted inner text and does not emit done.
C16_SpanMeansSearch ==
    [][(RoundEvaluated /\ HasCompleteSpan(output)) =>
        /\ calls'.searches = calls.searches + 1
        /\ search_query' # None /\ IsTrimOf(search_query'[1], LastSpanInner(output))
        /\ events'[Len(events')].type # "done"]_vars

\* C16 amended: a complete directive span whose inner text is not blank
\* makes the round search: search_and_fetch is invoked with the trimmed inner
\* text (which then has a cache entry) and the round emits no done. A span
\* whose inner text is empty or only whitespace counts as no directive: the
\* round emits done, the stream ends and nothing is searched.
C16_NonBlankSpanMeansSearch ==
    [][(RoundEvaluated /\ HasCompleteSpan(output)) =>
        IF Blank(LastSpanInner(output))
        THEN /\ events' = Append(events, Done) /\ pc' = "closed"
             /\ calls' = calls /\ cache' = cache /\ history' = history
        ELSE /\ calls'.searches = calls.searches + 1
             /\ search_query' # None /\ search_query'[1] # <<>>
             /\ IsTrimOf(search_query'[1], LastSpanInner(output))
             /\ search_query'[1] \in DOMAIN cache'
             /\ events'[Len(events')].type # "done"]_vars

\* "<think><search> </search>" ended the stream with done and no search
C16_Witness ==
    /\ EndedWith("done") /\ calls.searches = 0
    /\ output = THINK \o open_tag \o <<" ">> \o close_tag
    /\ search_query = <<<<>>>>

\* ---- C17 ----
IsResultEvent(e) ==
    /\ e.type = "token"
    /\ Len(e.content) > Len(RES_OPEN)
    /\ SubSeq(e.content, 1, Len(RES_OPEN) + 1) = <<"\n">> \o RES_OPEN
\* the search-result token events, in the order emitted
ResultEvents == SelectSeq(events, IsResultEvent)
\* the search rounds whose result message is in the history: message 2k+1
ResultMessages == {k \in 1..Len(summaries) : 2 * k + 1 <= Len(history)}
\* C17 as stated: the text of the history message appended for the result of
\* search round k is the text emitted in round k's search-result event.
C17_SameText ==
    \A k \in ResultMessages :
        /\ k <= Len(ResultEvents)
        /\ history[2 * k + 1].text = ResultEvents[k].content

\* C17 amended: every search round emits one search-result event and, once
\* the loop is resumed after it, has one result message in the history; the
\* message's text is the summary between the result delimiters, and the
\* event's text is that same text with one newline before and one after it.
C17_SameWrappedSummary ==
    /\ Len(ResultEvents) = Len(summaries)
    /\ ResultMessages = 1..(Len(summaries) - (IF AtResultYield THEN 1 ELSE 0))
    /\ \A k \in ResultMessages :
        /\ history[2 * k + 1].text = RES_OPEN \o summaries[k] \o RES_CLOSE
        /\ ResultEvents[k].content = <<"\n">> \o history[2 * k + 1].text \o <<"\n">>

\* the loop was resumed after a search round that summarized real pages
C17_Witness ==
    /\ pc = "post" /\ rounds = 2 /\ Len(history) = 3 /\ Len(ResultEvents) = 1
    /\ summaries = <<SummaryText>>
    /\ history[3].text = RES_OPEN \o SummaryText \o RES_CLOSE

\* ---- C18 ----
DistinctUrls(rs) == {rs[i].url : i \in 1..Len(rs)} \ {""}
\* C18: on a miss, the fetch step fetches each distinct non-empty url among
\* the provider results exactly once, also when a url occurs in several
\* results; and the returned list has as many results as the provider
\* returned, in the same order, each carrying the content fetched for its
\* url, or empty content when its url was not fetched.
C18_EachUrlFetchedOnce ==
    [][/\ (spc = "fetch" /\ spc' = "save") =>
            /\ scalls'.fetched = scalls.fetched + Cardinality(DistinctUrls(search_results))
            /\ DOMAIN page_texts' = DistinctUrls(search_results)
       /\ (spc = "save" /\ spc' = "idle") =>
            /\ Len(last'.result) = Len(search_results)
            /\ \A i \in 1..Len(search_results) :
                /\ last'.result[i].title = search_results[i].title
                /\ last'.result[i].url = search_results[i].url
                /\ last'.result[i].content =
                      IF search_results[i].url \in DOMAIN page_texts
                      THEN page_texts[search_results[i].url]
                      ELSE <<>>]_vars

\* ---- C19 ----
FailureMarked(item) ==
    /\ Len(item.content) >= Len(ErrorMarker)
    /\ SubSeq(item.content, 1, Len(ErrorMarker)) = ErrorMarker
Kept(list) == SelectSeq(list, LAMBDA item : ~FailureMarked(item))
\* C19: a run of clean_cache leaves every query in the store, with its list
\* reduced to the entries whose content does not start with the failure
\* marker, in their order; it writes the store exactly when some entry was
\* removed; and a run that follows another run directly removes nothing and
\* does not write the store.
C19_CleanRemovesFailures ==
    [][cruns' >= 1 =>
        /\ DOMAIN cache' = DOMAIN cache
        /\ \A q \in DOMAIN cache : cache'[q] = Kept(cache[q])
        /\ csaves' = (IF \E q \in DOMAIN cache :
                            \E i \in 1..Len(cache[q]) : FailureMarked(cache[q][i])
                      THEN 1 ELSE 0)
        /\ cruns >= 1 => (cache' = cache /\ csaves' = 0)]_vars

\* a second run right after a run that removed a failed page from a list
\* and kept the pages around it, an empty one included
C19_Witness ==
    /\ cruns = 2 /\ csaves = 0
    /\ <<"q">> \in DOMAIN cprev /\ cprev[<<"q">>] = <<StoredEmpty, StoredBad>>
    /\ <<"r">> \in DOMAIN cprev /\ cprev[<<"r">>] = <<StoredBad, StoredGood>>
    /\ cache[<<"q">>] = <<StoredEmpty>> /\ cache[<<"r">>] = <<StoredGood>>

\* ---- C20 ----
BothReturned == \A p \in Writers : wpc[p] = "done"
\* C20: when two search_and_fetch invocations for distinct queries have
\* interleaved and returned, the store a reader then loads is one writer's
\* complete view: the snapshot loaded by the invocation that wrote last, plus
\* that invocation's own entry.
C20_LastWriterWins ==
    (BothReturned /\ wlast # 0) =>
        LET view == [x \in DOMAIN wloaded[wlast] \cup {WriterQuery(wlast)} |->
                        IF x = WriterQuery(wlast) THEN wout[wlast]
                        ELSE wloaded[wlast][x]]
        IN  /\ load_cache(file) = view
            /\ file = dumps(view)

\* ---- C21 ----
Running == {i \in 1..Len(furls) : fstate[i] = "running"}
\* C21: at every moment of a fetch_multiple_pages call at most max_workers
\* page fetches are in flight; the call returns; and when it has returned,
\* every requested url's fetch has ended, with a page or with a failure, and
\* has its value in the returned mapping.
C21_BoundedPool ==
    /\ [](Cardinality(Running) <= fmax)
    /\ [](fpc = "returned" =>
            \A i \in 1..Len(furls) :
                /\ fstate[i] = "collected"
                /\ fres[i].kind \in {"status", "raise"}
                /\ furls[i] \in DOMAIN results)
    /\ <>(fpc = "returned")

\* three urls on two workers: both workers busy while the third call waits
C21_Witness ==
    /\ fpc = "collecting" /\ fmax = 2 /\ Len(furls) = 3
    /\ fstate = <<"running", "running", "queued">>

\* ---- C22 ----
FirstK(list, k) == [i \in 1..(IF k < Len(list) THEN k ELSE Len(list)) |-> list[i]]
NothingFound(resp) == resp.status # "ok" \/ resp.organic = <<>>
\* C22: calls of search_and_fetch made one after the other. No step of a
\* call for query q changes or removes the stored list of another query; a
\* call returns at most top_k results; when it returns, q has a stored list
\* whose first top_k results are the returned list; and a miss for which
\* the provider found nothing stores the empty list under q, replacing what
\* was stored there, and returns it.
C22_OnlyOwnEntry ==
    [][/\ \A x \in DOMAIN cache :
            x # squery' => (x \in DOMAIN cache' /\ cache'[x] = cache[x])
       /\ spc' = "idle" =>
            /\ last'.valid /\ last'.query = squery' /\ last'.top_k = stop_k'
            /\ Len(last'.result) <= stop_k'
            /\ squery' \in DOMAIN cache'
            /\ FirstK(cache'[squery'], stop_k') = last'.result
       /\ (spc = "save" /\ NothingFound(sresp)) =>
            /\ cache'[squery] = <<>>
            /\ last'.result = <<>>]_vars

\* the query's one stored result was too short for top_k = 2; the second
\* call found nothing and left the empty list, the other query's list stays
C22_Witness ==
    /\ spc = "idle" /\ last.valid /\ ~last.hit /\ last.repeat
    /\ last.top_k = 2 /\ last.prevlen = 1
    /\ last.result = <<>> /\ cache[last.query] = <<>>
    /\ \E x \in DOMAIN cache : x # last.query /\ cache[x] # <<>>

====
